---- MODULE Spec2Model ----
(***************************************************************************)
(* A model of the font table transformation engine of maple-font:          *)
(* source/py/feature.py (freeze_feature) and build.py (naming, unique      *)
(* identifier, fix_cv98, change_char_width, the options of the command     *)
(* line, the style build driver and its batches).                          *)
(*                                                                         *)
(* Specifications: Spec (freeze_feature alone), SpecNames (the names a     *)
(* builder writes), SpecWidth (change_char_width alone), SpecEngine (the   *)
(* three engine operations in any order), SpecPool (the batches of main    *)
(* over a Pool), SpecBuild (main for one style file: command line,         *)
(* build_mono, build_cn).                                                  *)
(*                                                                         *)
(* Python strings on which the code does character work (endswith,        *)
(* slicing, replace, the "in" substring test, concatenation) are modelled  *)
(* as sequences of one-character strings.  Python dicts are functions     *)
(* whose DOMAIN is the set of keys; ordered dicts that the code iterates   *)
(* (config.items(), mapping.items()) are sequences of <<key, value>>.      *)
(* List indices in the font (LookupListIndex) keep Python's 0-based        *)
(* values; TLA+ sequences are 1-based, so Lookup[index] is read at         *)
(* position index + 1.                                                     *)
(***************************************************************************)
EXTENDS Integers, Sequences, FiniteSets, TLC

VARIABLES
    font,     \* the TTFont being transformed (GSUB, glyf, hmtx)
    config,   \* FontConfig.feature_freeze: ordered <<tag, status>> pairs
    pc,       \* position of the running call
    i,        \* freeze_feature: position of the for loop over config.items()
    calls,    \* number of freeze_feature calls that have returned
    start,    \* the font when the current (or last) freeze_feature call began
    pre,      \* the font before the last loop iteration of freeze_feature
    last,     \* what the last loop iteration did, and for which config entry
    once,     \* the font when the first freeze_feature call returned
    style,          \* style_compact: the style token of the file name
    with_nerd_font, \* the argument of BuildOption.load_cn_dir_and_suffix
    narrow,         \* font_config.cn["narrow"]
    name_table,     \* the font's naming table: name ID -> string
    usWeightClass,  \* font["OS/2"].usWeightClass
    built,          \* the builder that named the font, and its locals
    match_width,    \* change_char_width: the argument match_width
    target_width,   \* change_char_width: the argument target_width
    gi,             \* change_char_width: position of the loop over getGlyphOrder()
    entry,          \* the font when the last change_char_width call began, <<>> before any
    widths,         \* number of change_char_width calls that have returned
    argv,           \* the flags given on the command line
    args,           \* the Namespace parse_args returned
    data,           \* the configuration json.load returned
    use_hinted,     \* font_config.use_hinted
    pool,           \* the Pool of main and the batch it maps
    builder,        \* the builder main has running on the style file
    fixed           \* fix_cv98 has returned on the font

freezeVars == <<font, pc, i, calls, start, pre, last, once>>
buildVars == <<style, with_nerd_font, narrow, name_table, usWeightClass, built>>
widthVars == <<match_width, target_width, gi, entry, widths>>
driverVars == <<argv, args, data, use_hinted, pool, builder, fixed>>
vars == <<font, config, pc, i, calls, start, pre, last, once,
          style, with_nerd_font, narrow, name_table, usWeightClass, built,
          match_width, target_width, gi, entry, widths,
          argv, args, data, use_hinted, pool, builder, fixed>>

(***************************************************************************)
(* Bounds of the model.                                                    *)
(***************************************************************************)
MaxRecords == 3   \* feature records in the GSUB feature list
MaxPairs == 2     \* pairs in one single-substitution mapping
MaxCalls == 2     \* consecutive freeze_feature calls on one font

(***************************************************************************)
(* Feature tags.                                                           *)
(***************************************************************************)
calt == <<"c", "a", "l", "t">>
cv01 == <<"c", "v", "0", "1">>
ss03 == <<"s", "s", "0", "3">>
ss05 == <<"s", "s", "0", "5">>
ss07 == <<"s", "s", "0", "7">>

\* build.py freeze(): moving_rules=["ss03", "ss05", "ss07"]
moving_rules == {ss03, ss05, ss07}

Statuses == {"ignore", "enable", "disable"}

(***************************************************************************)
(* The inputs the model enumerates.                                        *)
(***************************************************************************)
GlyphNames == {"emdash", "emdash.cv98", "ellipsis"}

\* Sequences over S of length at most n.
SeqUpTo(S, n) == UNION {[1..k -> S] : k \in 0..n}

\* A sequence without repeated elements.
Injective(s) == \A a, b \in DOMAIN s : a # b => s[a] # s[b]

\* Feature records a parsed GSUB table can hold.  Lookups 0 and 1 are
\* single substitutions, lookups 2 and 3 the contextual lookups of "calt"
\* and "ss03", which freeze_feature never opens.
RecordChoices ==
    { [FeatureTag |-> calt, LookupListIndex |-> <<2>>],
      [FeatureTag |-> cv01, LookupListIndex |-> <<0>>],
      [FeatureTag |-> cv01, LookupListIndex |-> <<0, 1>>],
      [FeatureTag |-> ss03, LookupListIndex |-> <<3>>] }

\* The position of a tag in the alphabetical order of the tags.
TagRank(t) == CASE t = calt -> 1 [] t = cv01 -> 2 [] t = ss03 -> 3

\* A compiled feature list holds its records in the order of their tags.
FeatureLists ==
    {r \in SeqUpTo(RecordChoices, MaxRecords) :
        \A a, b \in DOMAIN r :
            a < b => TagRank(r[a].FeatureTag) <= TagRank(r[b].FeatureTag)}

\* SubTable[0].mapping of a single substitution: an ordered dict old -> new.
GlyphPairs == {p \in GlyphNames \X GlyphNames : p[1] # p[2]}

Mappings ==
    {m \in SeqUpTo(GlyphPairs, MaxPairs) : Injective([k \in DOMAIN m |-> m[k][1]])}

\* Policy tags, and policies: ordered dicts tag -> status.
PolicyTags == {cv01, ss03}

Policies ==
    {c \in SeqUpTo(PolicyTags \X Statuses, Cardinality(PolicyTags)) :
        Injective([k \in DOMAIN c |-> c[k][1]])}

\* The keys of the outline store and of the metrics store: complete, or
\* one glyph name missing from one of them.
StoreDomains ==
    { <<GlyphNames, GlyphNames>>,
      <<GlyphNames \ {"ellipsis"}, GlyphNames>>,
      <<GlyphNames, GlyphNames \ {"ellipsis"}>> }

\* Every glyph name starts with a Glyph object of its own and an outline
\* and metrics entry unlike any other's.
GlyphId(g) ==
    CASE g = "emdash" -> 1
      [] g = "emdash.cv98" -> 2
      [] g = "ellipsis" -> 3

InitHeap ==
    [o \in {GlyphId(g) : g \in GlyphNames} |->
        [numberOfContours |-> 1, coordinates |-> << <<100 * o, 0>> >>]]

InitFont(records, m0, doms) ==
    [ FeatureRecord |-> records,
      Lookup |-> <<m0, << <<"ellipsis", "emdash">> >>, <<>>, <<>>>>,
      glyphs |-> [g \in doms[1] |-> GlyphId(g)],
      heap |-> InitHeap,
      metrics |-> [g \in doms[2] |-> <<600, 10 * GlyphId(g)>>] ]

(***************************************************************************)
(* Python helpers.                                                         *)
(***************************************************************************)
Max(S) == CHOOSE x \in S : \A y \in S : y <= x

\* list.extend(items) putting the items in front.
ExtendMutPrepend(list, items) == items \o list

\* list.extend(items)
Extend(list, items) == list \o items

\* The outline a glyph name shows: the data of the Glyph object it refers to.
Outline(f, g) == f.heap[f.glyphs[g]]

(***************************************************************************)
(* feature.py: freeze_feature                                              *)
(***************************************************************************)
\* The dict comprehension: a later record with the same tag replaces an
\* earlier one.  The value is the position of the record whose Feature
\* object the dict holds.
feature_dict(feature_record) ==
    [t \in {feature_record[k].FeatureTag : k \in DOMAIN feature_record} \ {calt} |->
        Max({k \in DOMAIN feature_record : feature_record[k].FeatureTag = t})]

\* feature_dict.get(tag): 0 stands for None.
GetTarget(feature_record, tag) ==
    LET fd == feature_dict(feature_record)
    IN IF tag \in DOMAIN fd THEN fd[tag] ELSE 0

\* The positions of the records whose Feature objects calt_features holds.
calt_features(feature_record) ==
    {k \in DOMAIN feature_record : feature_record[k].FeatureTag = calt}

\* status == "disable": target_feature.LookupListIndex = []
DisableFeature(f, target) ==
    [f EXCEPT !.FeatureRecord[target].LookupListIndex = <<>>]

\* tag in moving_rules: every calt feature's list is extended by the target's.
MoveRules(f, target) ==
    [f EXCEPT !.FeatureRecord =
        [k \in DOMAIN f.FeatureRecord |->
            IF k \in calt_features(f.FeatureRecord)
            THEN [f.FeatureRecord[k] EXCEPT !.LookupListIndex =
                    Extend(@, f.FeatureRecord[target].LookupListIndex)]
            ELSE f.FeatureRecord[k]]]

\* The condition of the if at lines 35-40.
BothExist(f, old_key, new_key) ==
    /\ old_key \in DOMAIN f.glyphs
    /\ old_key \in DOMAIN f.metrics
    /\ new_key \in DOMAIN f.glyphs
    /\ new_key \in DOMAIN f.metrics

\* Lines 41-42: the old name now refers to the new name's Glyph object and
\* holds the new name's metrics tuple.
ReplacePair(f, old_key, new_key) ==
    [f EXCEPT !.glyphs[old_key] = f.glyphs[new_key],
              !.metrics[old_key] = f.metrics[new_key]]

\* The loop over mapping.items(), from pair k on.  r.font is the font so
\* far, r.returned says that line 45 was reached.
RECURSIVE ReplacePairs(_, _, _)
ReplacePairs(r, mapping, k) ==
    IF r.returned \/ k > Len(mapping) THEN r
    ELSE IF BothExist(r.font, mapping[k][1], mapping[k][2])
         THEN ReplacePairs([r EXCEPT !.font = ReplacePair(@, mapping[k][1], mapping[k][2])],
                           mapping, k + 1)
         ELSE [r EXCEPT !.returned = TRUE]

\* The loop over target_feature.LookupListIndex, from position n on.
RECURSIVE ReplaceLookups(_, _, _)
ReplaceLookups(r, indices, n) ==
    IF r.returned \/ n > Len(indices) THEN r
    ELSE ReplaceLookups(ReplacePairs(r, r.font.Lookup[indices[n] + 1], 1), indices, n + 1)

\* The else branch at lines 28-45 for one target feature.
ReplaceGlyphs(f, target) ==
    ReplaceLookups([font |-> f, returned |-> FALSE],
                   f.FeatureRecord[target].LookupListIndex, 1)

(***************************************************************************)
(* Python str operations, on sequences of characters.                      *)
(***************************************************************************)
\* s.endswith(suffix)
endswith(s, suffix) ==
    /\ Len(suffix) <= Len(s)
    /\ SubSeq(s, Len(s) - Len(suffix) + 1, Len(s)) = suffix

\* s.startswith(prefix)
startswith(s, prefix) ==
    Len(prefix) <= Len(s) /\ SubSeq(s, 1, Len(prefix)) = prefix

\* s.replace(old, new), old not empty: the occurrences of old, found from
\* the left and not overlapping, become new.
RECURSIVE replace(_, _, _)
replace(s, old, new) ==
    IF s = <<>> THEN <<>>
    ELSE IF startswith(s, old)
         THEN new \o replace(SubSeq(s, Len(old) + 1, Len(s)), old, new)
         ELSE <<Head(s)>> \o replace(Tail(s), old, new)

\* sub in s
contains(s, sub) ==
    \E k \in 1..(Len(s) - Len(sub) + 1) : SubSeq(s, k, k + Len(sub) - 1) = sub

(***************************************************************************)
(* build.py: names and the unique identifier                               *)
(***************************************************************************)
Italic == <<"I", "t", "a", "l", "i", "c">>
Regular == <<"R", "e", "g", "u", "l", "a", "r">>
Bold == <<"B", "o", "l", "d">>
BoldItalic == <<"B", "o", "l", "d", "I", "t", "a", "l", "i", "c">>
Thin == <<"T", "h", "i", "n">>
ThinItalic == <<"T", "h", "i", "n", "I", "t", "a", "l", "i", "c">>
ExtraLight == <<"E", "x", "t", "r", "a", "L", "i", "g", "h", "t">>
InkItalic == <<"I", "n", "k", "I", "t", "a", "l", "i", "c">>
ItalicCaps == <<"I", "t", "a", "l", "i", "c", "C", "a", "p", "s">>

\* The style tokens the model enumerates: the four standard ones, named
\* instances, and tokens that hold "Italic" in other places.
StyleTokens ==
    {Regular, Bold, Italic, BoldItalic, Thin, ThinItalic, ExtraLight,
     InkItalic, ItalicCaps}

\* FontConfig.__init__
family_name == <<"M", "a", "p", "l", "e", " ", "M", "o", "n", "o">>
family_name_compact == <<"M", "a", "p", "l", "e", "M", "o", "n", "o">>

\* BuildOption.__init__
skip_subfamily_list == {Regular, Bold, Italic, BoldItalic}

\* BuildOption.load_cn_dir_and_suffix
cn_suffix(nerd) == IF nerd THEN <<"N", "F", " ", "C", "N">> ELSE <<"C", "N">>
cn_suffix_compact(nerd) == IF nerd THEN <<"N", "F", "-", "C", "N">> ELSE <<"C", "N">>

\* parse_font_name with line 315 keeping the token as it is.
parse_font_nameMutKeepItalic(style_name_compact, skip_list) ==
    LET is_italic == endswith(style_name_compact, Italic)
        _style_name ==
            IF is_italic /\ style_name_compact[1] # "I"
            THEN SubSeq(style_name_compact, 1, Len(style_name_compact) - 6)
                    \o <<" ">> \o Italic
            ELSE style_name_compact
    IN IF style_name_compact \in skip_list
       THEN << <<>>, _style_name, _style_name, is_italic >>
       ELSE << <<" ">> \o style_name_compact,
               IF is_italic THEN Italic ELSE Regular,
               _style_name,
               is_italic >>

\* parse_font_name: the tuple (family-name suffix, name ID 2, display style
\* name, is_italic).
parse_font_name(style_name_compact, skip_list) ==
    LET is_italic == endswith(style_name_compact, Italic)
        _style_name ==
            IF is_italic /\ style_name_compact[1] # "I"
            THEN SubSeq(style_name_compact, 1, Len(style_name_compact) - 6)
                    \o <<" ">> \o Italic
            ELSE style_name_compact
    IN IF style_name_compact \in skip_list
       THEN << <<>>, _style_name, _style_name, is_italic >>
       ELSE << <<" ">> \o replace(style_name_compact, Italic, <<>>),
               IF is_italic THEN Italic ELSE Regular,
               _style_name,
               is_italic >>

\* The for loop of get_unique_identifier over freeze_config.items(), from
\* entry k on.
RECURSIVE FeatureSuffix(_, _, _)
FeatureSuffix(suffix, freeze_config, k) ==
    IF k > Len(freeze_config) THEN suffix
    ELSE LET key == freeze_config[k][1]
             v == freeze_config[k][2]
         IN FeatureSuffix(
                IF v = "enable" THEN suffix \o <<"+">> \o key \o <<";">>
                ELSE IF v = "disable" THEN suffix \o <<"-">> \o key \o <<";">>
                ELSE suffix,
                freeze_config, k + 1)

VersionPrefix ==
    <<"V", "e", "r", "s", "i", "o", "n", " ", "7", ".", "0", "0", "0", ";",
      "S", "U", "B", "F", ";">>
ReleaseTag == <<";", "2", "0", "2", "4", ";", "F", "L", "8", "3", "0", ";">>
NarrowPrefix == <<"N", "a", "r", "r", "o", "w", ";">>

\* get_unique_identifier with the test of line 363 reduced to the name.
get_unique_identifierMutAlwaysNarrow(postscript_name, freeze_config, is_narrow, suffix) ==
    LET suffix1 == IF suffix = <<>>
                   THEN FeatureSuffix(suffix, freeze_config, 1)
                   ELSE suffix
        suffix2 == IF contains(postscript_name, <<"C", "N">>)
                   THEN NarrowPrefix \o suffix1
                   ELSE suffix1
    IN VersionPrefix \o postscript_name \o ReleaseTag \o suffix2

get_unique_identifier(postscript_name, freeze_config, is_narrow, suffix) ==
    LET suffix1 == IF suffix = <<>>
                   THEN FeatureSuffix(suffix, freeze_config, 1)
                   ELSE suffix
        suffix2 == IF contains(postscript_name, <<"C", "N">>) /\ is_narrow
                   THEN NarrowPrefix \o suffix1
                   ELSE suffix1
    IN VersionPrefix \o postscript_name \o ReleaseTag \o suffix2

\* utils.set_font_name(font, name, id): the naming table holds name under id.
set_font_name(table, name, id) ==
    [k \in DOMAIN table \cup {id} |-> IF k = id THEN name ELSE table[k]]

\* The set_font_name calls of a builder for IDs 1, 2, 4, 6 and 3, and those
\* for IDs 16 and 17 under the builder's if.
NameFont(table, id1, id2, id4, id6, id3, typographic, id16, id17) ==
    LET t1 == set_font_name(table, id1, 1)
        t2 == set_font_name(t1, id2, 2)
        t4 == set_font_name(t2, id4, 4)
        t6 == set_font_name(t4, id6, 6)
        t3 == set_font_name(t6, id3, 3)
    IN IF typographic
       THEN set_font_name(set_font_name(t3, id16, 16), id17, 17)
       ELSE t3

Tag(k) == config[k][1]
Status(k) == config[k][2]
Target(k) == GetTarget(font.FeatureRecord, Tag(k))

\* A call begins: lines 3-12.
FreezeCall ==
    /\ pc = "idle"
    /\ calls < MaxCalls
    /\ pc' = "freeze"
    /\ i' = 1
    /\ start' = font
    /\ pre' = font
    /\ last' = [step |-> "call", at |-> 0]
    /\ UNCHANGED <<font, config, calls, once>>
    /\ UNCHANGED <<buildVars, widthVars, driverVars>>

\* Lines 16-18: no such feature, or the status is "ignore".
FreezeContinue ==
    /\ pc = "freeze"
    /\ i <= Len(config)
    /\ Target(i) = 0 \/ Status(i) = "ignore"
    /\ pre' = font
    /\ last' = [step |-> "continue", at |-> i]
    /\ i' = i + 1
    /\ UNCHANGED <<font, config, pc, calls, start, once>>
    /\ UNCHANGED <<buildVars, widthVars, driverVars>>

\* Lines 20-22.
FreezeDisable ==
    /\ pc = "freeze"
    /\ i <= Len(config)
    /\ Target(i) # 0
    /\ Status(i) = "disable"
    /\ font' = DisableFeature(font, Target(i))
    /\ pre' = font
    /\ last' = [step |-> "disable", at |-> i]
    /\ i' = i + 1
    /\ UNCHANGED <<config, pc, calls, start, once>>
    /\ UNCHANGED <<buildVars, widthVars, driverVars>>

\* Lines 24-27.
FreezeMove ==
    /\ pc = "freeze"
    /\ i <= Len(config)
    /\ Target(i) # 0
    /\ Status(i) \notin {"ignore", "disable"}
    /\ Tag(i) \in moving_rules
    /\ font' = MoveRules(font, Target(i))
    /\ pre' = font
    /\ last' = [step |-> "move", at |-> i]
    /\ i' = i + 1
    /\ UNCHANGED <<config, pc, calls, start, once>>
    /\ UNCHANGED <<buildVars, widthVars, driverVars>>

\* Lines 28-42, every pair of every lookup replaced.
FreezeReplace ==
    /\ pc = "freeze"
    /\ i <= Len(config)
    /\ Target(i) # 0
    /\ Status(i) \notin {"ignore", "disable"}
    /\ Tag(i) \notin moving_rules
    /\ ~ReplaceGlyphs(font, Target(i)).returned
    /\ font' = ReplaceGlyphs(font, Target(i)).font
    /\ pre' = font
    /\ last' = [step |-> "replace", at |-> i]
    /\ i' = i + 1
    /\ UNCHANGED <<config, pc, calls, start, once>>
    /\ UNCHANGED <<buildVars, widthVars, driverVars>>

\* Lines 28-45, ended by the return at line 45: the call is over.
FreezeReplaceReturn ==
    /\ pc = "freeze"
    /\ i <= Len(config)
    /\ Target(i) # 0
    /\ Status(i) \notin {"ignore", "disable"}
    /\ Tag(i) \notin moving_rules
    /\ ReplaceGlyphs(font, Target(i)).returned
    /\ font' = ReplaceGlyphs(font, Target(i)).font
    /\ pre' = font
    /\ last' = [step |-> "return", at |-> i]
    /\ pc' = "idle"
    /\ calls' = calls + 1
    /\ once' = IF calls = 0 THEN font' ELSE once
    /\ UNCHANGED <<config, i, start>>
    /\ UNCHANGED <<buildVars, widthVars, driverVars>>

\* The for loop is exhausted: the call returns.
FreezeEnd ==
    /\ pc = "freeze"
    /\ i > Len(config)
    /\ pc' = "idle"
    /\ calls' = calls + 1
    /\ once' = IF calls = 0 THEN font ELSE once
    /\ UNCHANGED <<font, config, i, start, pre, last>>
    /\ UNCHANGED <<buildVars, widthVars, driverVars>>

\* No builder has named the font yet.
NotBuilt ==
    [by |-> "none", parsed |-> <<>>, postscript_name |-> <<>>,
     unique_identifier |-> <<>>]

\* build_mono, lines 392-429: the names, the identifier, the weight class.
BuildMonoNames ==
    /\ built.by = "none"
    /\ LET parsed == parse_font_name(style, skip_subfamily_list)
           postscript_name == family_name_compact \o <<"-">> \o style
           uid == get_unique_identifier(postscript_name, config, FALSE, <<>>)
       IN /\ name_table' =
                NameFont(name_table,
                         family_name \o parsed[1],
                         parsed[2],
                         family_name \o <<" ">> \o parsed[3],
                         postscript_name,
                         uid,
                         style \notin skip_subfamily_list,
                         family_name,
                         parsed[3])
          /\ usWeightClass' =
                IF parsed[1] = <<" ">> \o Thin THEN 250
                ELSE IF parsed[1] = <<" ">> \o ExtraLight THEN 275
                ELSE usWeightClass
          /\ built' = [by |-> "mono", parsed |-> parsed,
                       postscript_name |-> postscript_name,
                       unique_identifier |-> uid]
    /\ UNCHANGED <<config, style, with_nerd_font, narrow>>
    /\ UNCHANGED <<freezeVars, widthVars, driverVars>>

\* build_nf, lines 498-529.
BuildNFNames ==
    /\ built.by = "none"
    /\ LET parsed == parse_font_name(style, skip_subfamily_list)
           postscript_name == family_name_compact \o <<"-", "N", "F", "-">> \o style
           uid == get_unique_identifier(postscript_name, config, FALSE, <<>>)
       IN /\ name_table' =
                NameFont(name_table,
                         family_name \o <<" ", "N", "F">> \o parsed[1],
                         parsed[2],
                         family_name \o <<" ", "N", "F", " ">> \o parsed[3],
                         postscript_name,
                         uid,
                         style \notin skip_subfamily_list,
                         family_name \o <<" ", "N", "F">>,
                         parsed[3])
          /\ built' = [by |-> "nf", parsed |-> parsed,
                       postscript_name |-> postscript_name,
                       unique_identifier |-> uid]
    /\ UNCHANGED <<config, style, with_nerd_font, narrow, usWeightClass>>
    /\ UNCHANGED <<freezeVars, widthVars, driverVars>>

\* build_cn, lines 554-584.
BuildCNNames ==
    /\ built.by = "none"
    /\ LET parsed == parse_font_name(style, skip_subfamily_list)
           postscript_name ==
               family_name_compact \o <<"-">> \o cn_suffix_compact(with_nerd_font)
                  \o <<"-">> \o style
           uid == get_unique_identifier(postscript_name, config, narrow, <<>>)
       IN /\ name_table' =
                NameFont(name_table,
                         family_name \o <<" ">> \o cn_suffix(with_nerd_font) \o parsed[1],
                         parsed[2],
                         family_name \o <<" ">> \o cn_suffix(with_nerd_font)
                            \o <<" ">> \o parsed[3],
                         postscript_name,
                         uid,
                         style \notin skip_subfamily_list,
                         family_name \o <<" ">> \o cn_suffix(with_nerd_font),
                         parsed[3])
          /\ built' = [by |-> "cn", parsed |-> parsed,
                       postscript_name |-> postscript_name,
                       unique_identifier |-> uid]
    /\ UNCHANGED <<config, style, with_nerd_font, narrow, usWeightClass>>
    /\ UNCHANGED <<freezeVars, widthVars, driverVars>>

\* The naming table of a font before a builder names it: none of the
\* builders' IDs, those of a standard instance, or also the typographic
\* IDs 16 and 17.
PreviousName == <<"p", "r", "e", "v", "i", "o", "u", "s">>

InputNameTables ==
    {[id \in ids |-> PreviousName] :
        ids \in {{}, {1, 2, 3, 4, 6}, {1, 2, 3, 4, 6, 16, 17}}}

\* change_char_width has not been called.
NotNarrowed ==
    /\ match_width = 0
    /\ target_width = 0
    /\ gi = 0
    /\ entry = <<>>
    /\ widths = 0

\* No Pool has been made: no batch, no worker, no task.
NoPool ==
    [batch |-> 0, processes |-> 0, files |-> 0, raising |-> {}, chunksize |-> 0,
     taken |-> 0, worker |-> <<>>, task |-> <<>>, left |-> 0, success |-> TRUE,
     result |-> "none"]

\* main has not run: no command line, no configuration file, no Pool.
NotDriven ==
    /\ argv = {}
    /\ args = <<>>
    /\ data = <<>>
    /\ use_hinted = TRUE
    /\ pool = NoPool
    /\ builder = "none"
    /\ fixed = FALSE

\* The engine alone: freeze_feature called on a parsed font.
Init ==
    /\ \E records \in FeatureLists, m0 \in Mappings, doms \in StoreDomains :
          font = InitFont(records, m0, doms)
    /\ config \in Policies
    /\ pc = "idle"
    /\ i = 0
    /\ calls = 0
    /\ start = font
    /\ pre = font
    /\ last = [step |-> "none", at |-> 0]
    /\ once = font
    /\ style = Regular
    /\ with_nerd_font = TRUE
    /\ narrow = FALSE
    /\ name_table = <<>>
    /\ usWeightClass = 400
    /\ built = NotBuilt
    /\ NotNarrowed
    /\ NotDriven

Next ==
    \/ FreezeCall
    \/ FreezeContinue
    \/ FreezeDisable
    \/ FreezeMove
    \/ FreezeReplace
    \/ FreezeReplaceReturn
    \/ FreezeEnd

Spec == Init /\ [][Next]_vars

\* The naming of one style file by one of the three builders.
InitNames ==
    /\ font = InitFont(<<>>, <<>>, <<GlyphNames, GlyphNames>>)
    /\ config \in Policies
    /\ pc = "idle"
    /\ i = 0
    /\ calls = 0
    /\ start = font
    /\ pre = font
    /\ last = [step |-> "none", at |-> 0]
    /\ once = font
    /\ style \in StyleTokens
    /\ with_nerd_font \in BOOLEAN
    /\ narrow \in BOOLEAN
    /\ name_table \in InputNameTables
    /\ usWeightClass = 400
    /\ built = NotBuilt
    /\ NotNarrowed
    /\ NotDriven

NextNames ==
    \/ BuildMonoNames
    \/ BuildNFNames
    \/ BuildCNNames

SpecNames == InitNames /\ [][NextNames]_vars

(***************************************************************************)
(* Properties of freeze_feature.                                           *)
(***************************************************************************)
\* A freeze_feature call has returned, and it is the first on this font.
Returned == pc = "idle" /\ calls = 1

\* The same, and the call ran its loop to the end (no return at line 45).
RanToEnd == Returned /\ last.step # "return"

\* The status the policy gives a tag ("ignore" for a tag it does not hold).
PolicyOf(tag) ==
    IF \E j \in DOMAIN config : config[j][1] = tag
    THEN config[CHOOSE j \in DOMAIN config : config[j][1] = tag][2]
    ELSE "ignore"

\* The last record of a feature list that carries a tag.
LastRecord(records, tag) ==
    Max({k \in DOMAIN records : records[k].FeatureTag = tag})

\* s ends with t.
IsSuffix(t, s) ==
    Len(t) <= Len(s) /\ SubSeq(s, Len(s) - Len(t) + 1, Len(s)) = t

\* C1: after freeze_feature, every feature record whose tag has status
\* "disable" has an empty lookup-index list and is still a record of the
\* feature list, also when several records carry the same tag.  (Stated for
\* the calls that run the loop to its end.)
C1_DisabledRecordsCleared ==
    RanToEnd =>
        /\ Len(font.FeatureRecord) = Len(start.FeatureRecord)
        /\ \A k \in DOMAIN start.FeatureRecord :
              /\ font.FeatureRecord[k].FeatureTag = start.FeatureRecord[k].FeatureTag
              /\ PolicyOf(start.FeatureRecord[k].FeatureTag) = "disable"
                    => font.FeatureRecord[k].LookupListIndex = <<>>

\* The lookup indices a policy relocates: those of the target (the last
\* record carrying the tag) of each enabled tag of moving_rules the feature
\* list holds, in the policy's order.
RECURSIVE RelocatedLookups(_, _)
RelocatedLookups(records, policy) ==
    IF policy = <<>> THEN <<>>
    ELSE LET tag == Head(policy)[1]
         IN (IF /\ Head(policy)[2] = "enable"
                /\ tag \in {ss03, ss05, ss07}
                /\ \E k \in DOMAIN records : records[k].FeatureTag = tag
             THEN records[LastRecord(records, tag)].LookupListIndex
             ELSE <<>>)
            \o RelocatedLookups(records, Tail(policy))

\* C2: when freeze_feature handles an enabled tag of moving_rules that the
\* font holds, every "calt" record's lookup-index list becomes its previous
\* content followed by the target feature's lookup indices in their order,
\* and the outline store and the metrics store are as before; a call that
\* runs its loop to the end has done so for every such tag of the policy.
C2_RelocationAppends ==
    /\ last.step = "move" =>
          LET tag == config[last.at][1]
              target == LastRecord(pre.FeatureRecord, tag)
          IN /\ config[last.at][2] = "enable" /\ tag \in {ss03, ss05, ss07}
             /\ Len(font.FeatureRecord) = Len(pre.FeatureRecord)
             /\ \A k \in DOMAIN pre.FeatureRecord :
                   pre.FeatureRecord[k].FeatureTag = calt =>
                      /\ font.FeatureRecord[k].FeatureTag = calt
                      /\ font.FeatureRecord[k].LookupListIndex =
                            pre.FeatureRecord[k].LookupListIndex
                               \o pre.FeatureRecord[target].LookupListIndex
             /\ font.glyphs = pre.glyphs
             /\ font.heap = pre.heap
             /\ font.metrics = pre.metrics
    /\ RanToEnd =>
          \A k \in DOMAIN start.FeatureRecord :
              start.FeatureRecord[k].FeatureTag = calt =>
                  font.FeatureRecord[k].LookupListIndex =
                      start.FeatureRecord[k].LookupListIndex
                         \o RelocatedLookups(start.FeatureRecord, config)

\* Two "calt" records, both non-empty before, have just received the
\* lookups of "ss03".
C2_Witness ==
    /\ last.step = "move"
    /\ Cardinality(calt_features(font.FeatureRecord)) = 2
    /\ \A k \in calt_features(font.FeatureRecord) :
          /\ pre.FeatureRecord[k].LookupListIndex = <<2>>
          /\ font.FeatureRecord[k].LookupListIndex = <<2, 3>>

\* The pairs of the mappings a feature record refers to.
PairsOf(f, k) ==
    UNION { {f.Lookup[f.FeatureRecord[k].LookupListIndex[n] + 1][p] :
                p \in DOMAIN f.Lookup[f.FeatureRecord[k].LookupListIndex[n] + 1]} :
            n \in DOMAIN f.FeatureRecord[k].LookupListIndex }

\* The direct-substitution entries of the policy: enabled, not in
\* moving_rules, and the font has the feature.
DirectEntries ==
    {j \in DOMAIN config :
        /\ config[j][2] = "enable"
        /\ config[j][1] \notin moving_rules
        /\ GetTarget(start.FeatureRecord, config[j][1]) # 0}

\* C3: for every enabled tag outside moving_rules and every (old, new) pair
\* of the mappings its feature refers to, when both names are in the outline
\* store and the metrics store, then after freeze_feature the old name's
\* outline and metrics entry are those the new name had.  (Stated for the
\* calls that run the loop to its end.)
C3_OldBecomesNew ==
    RanToEnd =>
        \A j \in DirectEntries :
            \A p \in PairsOf(start, GetTarget(start.FeatureRecord, config[j][1])) :
                BothExist(start, p[1], p[2]) =>
                    /\ Outline(font, p[1]) = Outline(start, p[2])
                    /\ font.metrics[p[1]] = start.metrics[p[2]]

\* The glyph names the mappings of a feature record hold.
NamedBy(f, k) == UNION { {p[1], p[2]} : p \in PairsOf(f, k) }

\* The outline and metrics entry of a glyph name are the same in f and g.
SameEntries(f, g, name) ==
    /\ name \in DOMAIN f.glyphs <=> name \in DOMAIN g.glyphs
    /\ name \in DOMAIN f.glyphs => Outline(f, name) = Outline(g, name)
    /\ name \in DOMAIN f.metrics <=> name \in DOMAIN g.metrics
    /\ name \in DOMAIN f.metrics => f.metrics[name] = g.metrics[name]

\* C4: when a pair of an enabled direct-substitution feature names a glyph
\* missing from a store, no substitution of that feature is applied: every
\* glyph its mappings name has the outline and metrics entry it had before.
C4_NoPartialSubstitution ==
    last.step = "return" =>
        \A name \in NamedBy(pre, GetTarget(pre.FeatureRecord, config[last.at][1])) :
            SameEntries(font, pre, name)

\* C5: a missing-glyph failure aborts only its own feature: every entry
\* later in the policy is still handled by its status (a disabled feature
\* is cleared, an enabled feature of moving_rules is appended to "calt").
C5_LaterFeaturesProcessed ==
    (Returned /\ last.step = "return") =>
        \A j \in DOMAIN config :
            (j > last.at /\ GetTarget(start.FeatureRecord, config[j][1]) # 0) =>
                LET target == GetTarget(start.FeatureRecord, config[j][1])
                IN /\ config[j][2] = "disable" =>
                        font.FeatureRecord[target].LookupListIndex = <<>>
                   /\ (config[j][2] = "enable" /\ config[j][1] \in moving_rules) =>
                        \A k \in calt_features(start.FeatureRecord) :
                            IsSuffix(start.FeatureRecord[target].LookupListIndex,
                                     font.FeatureRecord[k].LookupListIndex)

\* C6: applying freeze_feature twice with the same policy leaves the
\* feature list, the lookups, the outline store and the metrics store as
\* applying it once does.
C6_Idempotent ==
    (pc = "idle" /\ calls = 2) => font = once

(***************************************************************************)
(* Properties of the names and the unique identifier.                      *)
(***************************************************************************)
\* The feature-state part of an identifier: for each tag of the policy, in
\* the policy's order, "+tag;" if enabled, "-tag;" if disabled, nothing if
\* ignored.
RECURSIVE FeatureState(_)
FeatureState(policy) ==
    IF policy = <<>> THEN <<>>
    ELSE (CASE Head(policy)[2] = "enable" -> <<"+">> \o Head(policy)[1] \o <<";">>
            [] Head(policy)[2] = "disable" -> <<"-">> \o Head(policy)[1] \o <<";">>
            [] OTHER -> <<>>)
         \o FeatureState(Tail(policy))

\* The font being built is a narrowed CN variant.
NarrowedCN == built.by = "cn" /\ narrow

\* C7: the unique identifier a builder computes and writes under name ID 3
\* is "Version 7.000;SUBF;" + postscript_name + ";2024;FL830;" followed by
\* the feature states in the policy's order, these prefixed with "Narrow;"
\* exactly when the font being built is a narrowed CN variant.
C7_UniqueIdentifier ==
    built.by # "none" =>
        /\ built.unique_identifier =
              VersionPrefix \o built.postscript_name \o ReleaseTag
                 \o (IF NarrowedCN THEN NarrowPrefix ELSE <<>>)
                 \o FeatureState(config)
        /\ name_table[3] = built.unique_identifier

\* The example of the specification, "MapleMono-Bold" with ss03 enabled and
\* cv01 disabled, has been built.
C7_Witness ==
    /\ built.by = "mono"
    /\ style = Bold
    /\ config = << <<ss03, "enable">>, <<cv01, "disable">> >>
    /\ name_table[3] =
          <<"V", "e", "r", "s", "i", "o", "n", " ", "7", ".", "0", "0", "0", ";",
            "S", "U", "B", "F", ";", "M", "a", "p", "l", "e", "M", "o", "n", "o",
            "-", "B", "o", "l", "d", ";", "2", "0", "2", "4", ";", "F", "L", "8",
            "3", "0", ";", "+", "s", "s", "0", "3", ";", "-", "c", "v", "0", "1",
            ";">>

\* A token with every occurrence of "Italic" taken out.
RECURSIVE WithoutItalic(_)
WithoutItalic(token) ==
    IF Len(token) < Len(Italic) THEN token
    ELSE IF SubSeq(token, 1, Len(Italic)) = Italic
         THEN WithoutItalic(SubSeq(token, Len(Italic) + 1, Len(token)))
         ELSE <<Head(token)>> \o WithoutItalic(Tail(token))

\* C8: for a token of the skip list the family-name suffix is empty and
\* name ID 2 is the display style name; for any other token the suffix is
\* one space and the token without "Italic", and name ID 2 is "Italic" for
\* an italic token (one that ends with "Italic") and "Regular" otherwise;
\* build_mono writes the family name followed by that suffix as name ID 1.
C8_FamilySuffixAndSubfamily ==
    built.by # "none" =>
        /\ style \in {Regular, Bold, Italic, BoldItalic} =>
              /\ built.parsed[1] = <<>>
              /\ name_table[2] = built.parsed[3]
        /\ style \notin {Regular, Bold, Italic, BoldItalic} =>
              /\ built.parsed[1] = <<" ">> \o WithoutItalic(style)
              /\ name_table[2] = IF IsSuffix(Italic, style) THEN Italic ELSE Regular
        /\ built.by = "mono" => name_table[1] = family_name \o built.parsed[1]

\* build_mono has named "ThinItalic": family "Maple Mono Thin", subfamily
\* "Italic".
C8_Witness ==
    /\ built.by = "mono"
    /\ style = ThinItalic
    /\ name_table[1] =
          <<"M", "a", "p", "l", "e", " ", "M", "o", "n", "o", " ", "T", "h", "i", "n">>
    /\ name_table[2] = Italic

\* The family name of the variant a builder makes, without a style.
VariantFamily ==
    CASE built.by = "nf" -> family_name \o <<" ", "N", "F">>
      [] built.by = "cn" -> family_name \o <<" ">> \o cn_suffix(with_nerd_font)
      [] OTHER -> family_name

\* C9: in a font named by build_mono, build_nf or build_cn, name IDs 16 and
\* 17 are absent when the style token is in the skip list, whatever the
\* input naming table held; otherwise ID 16 is the family name and ID 17 the
\* display style name.
C9_TypographicNames ==
    built.by # "none" =>
        IF style \in {Regular, Bold, Italic, BoldItalic}
        THEN 16 \notin DOMAIN name_table /\ 17 \notin DOMAIN name_table
        ELSE /\ 16 \in DOMAIN name_table /\ name_table[16] = VariantFamily
             /\ 17 \in DOMAIN name_table /\ name_table[17] = built.parsed[3]

\* C10: the display style name is the token without its trailing "Italic",
\* a space, and "Italic" exactly when the token ends with "Italic" and is
\* not "Italic" itself; in every other case it is the token.
C10_DisplayStyleName ==
    built.by # "none" =>
        built.parsed[3] =
            IF IsSuffix(Italic, style) /\ style # Italic
            THEN SubSeq(style, 1, Len(style) - Len(Italic)) \o <<" ">> \o Italic
            ELSE style

(***************************************************************************)
(* build.py: change_char_width                                             *)
(***************************************************************************)
MaxGlyphs == 4       \* glyphs in the glyph order of a font
MaxWidthCalls == 1   \* consecutive change_char_width calls on one font

\* The advance widths a call looks for, and those it sets.
MatchWidths == {600, 1200}
TargetWidths == {1000, 1001, 1003}

\* The glyph names of a font with the wide glyphs of a CN source, in glyph
\* order.
OrderNames == <<"emdash", "emdash.cv98", "ellipsis", "ellipsis.cv98", "uni4E00">>

\* The position of a glyph name in that order.
OrderIndex(g) == CHOOSE k \in DOMAIN OrderNames : OrderNames[k] = g

\* What a parsed glyph can be: half or full width, with one contour or
\* with none.
GlyphShapes ==
    { [width |-> 1200, lsb |-> 50, numberOfContours |-> 1,
       coordinates |-> << <<50, 0>>, <<1150, 700>> >>],
      [width |-> 1200, lsb |-> 0, numberOfContours |-> 0, coordinates |-> <<>>],
      [width |-> 600, lsb |-> 40, numberOfContours |-> 1,
       coordinates |-> << <<40, -10>>, <<560, 500>> >>],
      [width |-> 600, lsb |-> 0, numberOfContours |-> 0, coordinates |-> <<>>] }

Min(S) == CHOOSE x \in S : \A y \in S : x <= y

\* glyph.coordinates.calcIntBounds(): (xMin, yMin, xMax, yMax), zeros for no
\* coordinates.
calcIntBounds(coordinates) ==
    IF coordinates = <<>> THEN <<0, 0, 0, 0>>
    ELSE << Min({coordinates[k][1] : k \in DOMAIN coordinates}),
            Min({coordinates[k][2] : k \in DOMAIN coordinates}),
            Max({coordinates[k][1] : k \in DOMAIN coordinates}),
            Max({coordinates[k][2] : k \in DOMAIN coordinates}) >>

\* The Glyph object the parser makes of a shape.
GlyphObject(shape) ==
    [numberOfContours |-> shape.numberOfContours,
     coordinates |-> shape.coordinates,
     xMin |-> calcIntBounds(shape.coordinates)[1],
     yMin |-> calcIntBounds(shape.coordinates)[2],
     xMax |-> calcIntBounds(shape.coordinates)[3],
     yMax |-> calcIntBounds(shape.coordinates)[4]]

\* TTFont(path), or Merger().merge(...): the glyph order, a Glyph object of
\* its own for every name, the metrics, and the hhea maximum the compiler
\* computed from the metrics.
ParsedFont(shapes, records, lookups) ==
    [ FeatureRecord |-> records,
      Lookup |-> lookups,
      glyphOrder |-> SubSeq(OrderNames, 1, Len(shapes)),
      glyphs |-> [g \in {OrderNames[k] : k \in DOMAIN shapes} |-> OrderIndex(g)],
      heap |-> [o \in DOMAIN shapes |-> GlyphObject(shapes[o])],
      metrics |-> [g \in {OrderNames[k] : k \in DOMAIN shapes} |->
                      <<shapes[OrderIndex(g)].width, shapes[OrderIndex(g)].lsb>>],
      advanceWidthMax |-> Max({shapes[k].width : k \in DOMAIN shapes}) ]

\* round(x / 2) that always rounds a half down.
RoundHalfMutFloor(x) == x \div 2

\* round(x / 2) for an int x: Python 3 rounds a half to the even neighbour.
RoundHalf(x) ==
    LET q == x \div 2
    IN IF x % 2 = 0 THEN q
       ELSE IF q % 2 = 0 THEN q ELSE q + 1

\* glyph.coordinates.translate((delta, 0))
Translate(coordinates, delta) ==
    [k \in DOMAIN coordinates |-> <<coordinates[k][1] + delta, coordinates[k][2]>>]

\* Lines 380-385 for one glyph name: the Glyph object the name refers to is
\* translated in place and its bounds are set, the name's metrics entry is
\* replaced.
ShiftGlyph(f, name, width, target) ==
    LET delta == RoundHalf(target - width)
        glyph == f.glyphs[name]
        moved == Translate(f.heap[glyph].coordinates, delta)
        bounds == calcIntBounds(moved)
    IN [f EXCEPT !.heap[glyph] =
                    [@ EXCEPT !.coordinates = moved,
                              !.xMin = bounds[1], !.yMin = bounds[2],
                              !.xMax = bounds[3], !.yMax = bounds[4]],
                 !.metrics[name] = <<target, f.metrics[name][2] + delta>>]

\* The loop variable name, and the locals glyph and width of the iteration.
Name == font.glyphOrder[gi]
Glyph == font.heap[font.glyphs[Name]]
Width == font.metrics[Name][1]

\* A call begins: line 370.
ChangeWidthCall ==
    /\ pc = "idle"
    /\ widths < MaxWidthCalls
    /\ match_width' \in MatchWidths
    /\ target_width' \in TargetWidths
    /\ font' = [font EXCEPT !.advanceWidthMax = target_width']
    /\ entry' = font
    /\ gi' = 1
    /\ pc' = "width"
    /\ UNCHANGED <<config, i, calls, start, pre, last, once, widths>>
    /\ UNCHANGED <<buildVars, driverVars>>

\* Lines 372-375: the glyph has another width.
ChangeWidthSkip ==
    /\ pc = "width"
    /\ gi <= Len(font.glyphOrder)
    /\ Width # match_width
    /\ gi' = gi + 1
    /\ UNCHANGED <<font, config, pc, i, calls, start, pre, last, once>>
    /\ UNCHANGED <<match_width, target_width, entry, widths>>
    /\ UNCHANGED <<buildVars, driverVars>>

\* Lines 376-378: the glyph has no contours.
ChangeWidthBlank ==
    /\ pc = "width"
    /\ gi <= Len(font.glyphOrder)
    /\ Width = match_width
    /\ Glyph.numberOfContours = 0
    /\ font' = [font EXCEPT !.metrics[Name] = <<target_width, @[2]>>]
    /\ gi' = gi + 1
    /\ UNCHANGED <<config, pc, i, calls, start, pre, last, once>>
    /\ UNCHANGED <<match_width, target_width, entry, widths>>
    /\ UNCHANGED <<buildVars, driverVars>>

\* Lines 380-385.
ChangeWidthShift ==
    /\ pc = "width"
    /\ gi <= Len(font.glyphOrder)
    /\ Width = match_width
    /\ Glyph.numberOfContours # 0
    /\ font' = ShiftGlyph(font, Name, Width, target_width)
    /\ gi' = gi + 1
    /\ UNCHANGED <<config, pc, i, calls, start, pre, last, once>>
    /\ UNCHANGED <<match_width, target_width, entry, widths>>
    /\ UNCHANGED <<buildVars, driverVars>>

\* The for loop is exhausted: the call returns.
ChangeWidthReturn ==
    /\ pc = "width"
    /\ gi > Len(font.glyphOrder)
    /\ pc' = "idle"
    /\ widths' = widths + 1
    /\ UNCHANGED <<font, config, i, calls, start, pre, last, once>>
    /\ UNCHANGED <<match_width, target_width, gi, entry>>
    /\ UNCHANGED <<buildVars, driverVars>>

\* change_char_width alone, called on a parsed font.
InitWidth ==
    /\ \E shapes \in SeqUpTo(GlyphShapes, MaxGlyphs) :
          /\ shapes # <<>>
          /\ font = ParsedFont(shapes, <<>>, <<>>)
    /\ config = <<>>
    /\ pc = "idle"
    /\ i = 0
    /\ calls = 0
    /\ start = font
    /\ pre = font
    /\ last = [step |-> "none", at |-> 0]
    /\ once = font
    /\ style = Regular
    /\ with_nerd_font = TRUE
    /\ narrow = TRUE
    /\ name_table = <<>>
    /\ usWeightClass = 400
    /\ built = NotBuilt
    /\ NotNarrowed
    /\ NotDriven

NextWidth ==
    \/ ChangeWidthCall
    \/ ChangeWidthSkip
    \/ ChangeWidthBlank
    \/ ChangeWidthShift
    \/ ChangeWidthReturn

SpecWidth == InitWidth /\ [][NextWidth]_vars

(***************************************************************************)
(* Properties of change_char_width.                                        *)
(***************************************************************************)
\* The first change_char_width call on the font has returned.
WidthReturned == pc = "idle" /\ widths = 1

\* round(x / 2): the integer nearest to x / 2, the even one of the two
\* nearest when x is odd.
Delta(x) ==
    CHOOSE d \in -1200..1200 :
        /\ 2 * d - x \in {-1, 0, 1}
        /\ 2 * d # x => d % 2 = 0

\* C11: after change_char_width on a parsed or merged font, every glyph
\* whose advance width was match_width has advance width target_width; one
\* without contours keeps its left side bearing and its outline; of any
\* other every x coordinate is shifted by delta =
\* round((target_width - match_width) / 2), every y coordinate is as before,
\* the bounding box is that of the shifted coordinates and the left side
\* bearing is increased by delta.  Every glyph of another width keeps its
\* outline, advance width and side bearing.
C11_WidthNormalised ==
    WidthReturned =>
        \A name \in DOMAIN entry.glyphs :
            LET old == Outline(entry, name)
                new == Outline(font, name)
                delta == Delta(target_width - match_width)
            IN IF entry.metrics[name][1] # match_width
               THEN new = old /\ font.metrics[name] = entry.metrics[name]
               ELSE /\ font.metrics[name][1] = target_width
                    /\ IF old.numberOfContours = 0
                       THEN /\ font.metrics[name][2] = entry.metrics[name][2]
                            /\ new = old
                       ELSE /\ font.metrics[name][2] = entry.metrics[name][2] + delta
                            /\ new.numberOfContours = old.numberOfContours
                            /\ DOMAIN new.coordinates = DOMAIN old.coordinates
                            /\ \A k \in DOMAIN old.coordinates :
                                  new.coordinates[k] =
                                     <<old.coordinates[k][1] + delta, old.coordinates[k][2]>>
                            /\ new.xMin = Min({new.coordinates[k][1] : k \in DOMAIN new.coordinates})
                            /\ new.xMax = Max({new.coordinates[k][1] : k \in DOMAIN new.coordinates})
                            /\ new.yMin = Min({new.coordinates[k][2] : k \in DOMAIN new.coordinates})
                            /\ new.yMax = Max({new.coordinates[k][2] : k \in DOMAIN new.coordinates})

\* change_char_width(font, 1200, 1000) has returned on a font with a glyph
\* of width 1200, bearing 50 and one contour, now of width 1000, bearing -50
\* and shifted by -100, and a glyph of width 1200 without contours, now of
\* width 1000 with its bearing.
C11_Witness ==
    /\ WidthReturned
    /\ match_width = 1200
    /\ target_width = 1000
    /\ \E name \in DOMAIN entry.glyphs :
          /\ entry.metrics[name] = <<1200, 50>>
          /\ Outline(entry, name).coordinates = << <<50, 0>>, <<1150, 700>> >>
          /\ font.metrics[name] = <<1000, -50>>
          /\ Outline(font, name).coordinates = << <<-50, 0>>, <<1050, 700>> >>
    /\ \E name \in DOMAIN entry.glyphs :
          /\ entry.metrics[name] = <<1200, 0>>
          /\ Outline(entry, name).numberOfContours = 0
          /\ font.metrics[name] = <<1000, 0>>

\* C14: change_char_width sets hhea.advanceWidthMax to target_width only
\* when some glyph has advance width match_width; when none has, the call
\* leaves the whole font, advanceWidthMax included, as it was.
C14_MaxWidthOnlyOnMatch ==
    WidthReturned =>
        IF \E name \in DOMAIN entry.metrics : entry.metrics[name][1] = match_width
        THEN font.advanceWidthMax = target_width
        ELSE font = entry

(***************************************************************************)
(* build.py: main, the batches mapped over a Pool                          *)
(***************************************************************************)
MaxPoolSize == 2   \* font_config.pool_size
MaxFiles == 5      \* style files in the directory a batch lists

\* The batches of main, in their order: lines 691-692, 721-722, 748-749.
Batches == <<"build_mono", "build_nf", "build_cn">>

\* Pool.map(func, iterable) without a chunksize: the iterable is cut into
\* chunks of divmod(len(iterable), processes * 4) rounded up.
ChunkSize(len, processes) ==
    IF len % (processes * 4) # 0
    THEN len \div (processes * 4) + 1
    ELSE len \div (processes * 4)

\* The number of chunks, and the first and last task of chunk c.
NumChunks(len, chunksize) ==
    IF len = 0 THEN 0 ELSE (len + chunksize - 1) \div chunksize

FirstTask(c, chunksize) == (c - 1) * chunksize + 1

LastTask(c, chunksize, len) == Min({c * chunksize, len})

\* A worker process that holds no chunk.
IdleWorker == [chunk |-> 0, next |-> 0]

\* with Pool(font_config.pool_size) as p: p.map(builder, listdir(directory)).
\* The first batch fixes the pool size and the files of the directory; a
\* batch follows the one before only when its map returned.  raising is the
\* set of files on which the builder raises an exception.
PoolMap ==
    /\ pc = "idle"
    /\ pool.result = (IF pool.batch = 0 THEN "none" ELSE "returned")
    /\ pool.batch < Len(Batches)
    /\ \E processes \in 1..MaxPoolSize, files \in 1..MaxFiles :
          /\ pool.batch > 0 => processes = pool.processes /\ files = pool.files
          /\ \E raising \in SUBSET (1..files) :
                pool' = [batch |-> pool.batch + 1,
                         processes |-> processes,
                         files |-> files,
                         raising |-> raising,
                         chunksize |-> ChunkSize(files, processes),
                         taken |-> 0,
                         worker |-> [w \in 1..processes |-> IdleWorker],
                         task |-> [t \in 1..files |-> "queued"],
                         left |-> NumChunks(files, ChunkSize(files, processes)),
                         success |-> TRUE,
                         result |-> "none"]
    /\ UNCHANGED <<freezeVars, buildVars, widthVars>>
    /\ UNCHANGED <<config, argv, args, data, use_hinted, builder, fixed>>

\* An idle worker process takes the next chunk from the task queue.
WorkerTake ==
    /\ pool.result = "none"
    /\ pool.taken < NumChunks(pool.files, pool.chunksize)
    /\ \E w \in DOMAIN pool.worker :
          /\ pool.worker[w] = IdleWorker
          /\ pool' = [pool EXCEPT
                !.taken = @ + 1,
                !.worker[w] = [chunk |-> pool.taken + 1,
                               next |-> FirstTask(pool.taken + 1, pool.chunksize)]]
    /\ UNCHANGED <<freezeVars, buildVars, widthVars>>
    /\ UNCHANGED <<config, argv, args, data, use_hinted, builder, fixed>>

\* A worker runs the builder on the next file of its chunk, and the builder
\* returns.  After the last file of the chunk the worker reports the chunk.
TaskDone ==
    /\ pool.result = "none"
    /\ \E w \in DOMAIN pool.worker :
          LET t == pool.worker[w].next
              c == pool.worker[w].chunk
          IN /\ pool.worker[w] # IdleWorker
             /\ t \notin pool.raising
             /\ pool' =
                  IF t = LastTask(c, pool.chunksize, pool.files)
                  THEN [pool EXCEPT !.task[t] = "done",
                                    !.worker[w] = IdleWorker,
                                    !.left = @ - 1]
                  ELSE [pool EXCEPT !.task[t] = "done",
                                    !.worker[w].next = t + 1]
    /\ UNCHANGED <<freezeVars, buildVars, widthVars>>
    /\ UNCHANGED <<config, argv, args, data, use_hinted, builder, fixed>>

\* The builder raises: the exception leaves the map over the chunk, the
\* worker reports the chunk as failed and the rest of the chunk is not run.
TaskRaise ==
    /\ pool.result = "none"
    /\ \E w \in DOMAIN pool.worker :
          LET t == pool.worker[w].next
          IN /\ pool.worker[w] # IdleWorker
             /\ t \in pool.raising
             /\ pool' = [pool EXCEPT !.task[t] = "raised",
                                     !.worker[w] = IdleWorker,
                                     !.left = @ - 1,
                                     !.success = FALSE]
    /\ UNCHANGED <<freezeVars, buildVars, widthVars>>
    /\ UNCHANGED <<config, argv, args, data, use_hinted, builder, fixed>>

\* Every chunk is reported and none failed: map returns, the with block
\* ends the pool.
MapReturn ==
    /\ pool.batch > 0
    /\ pool.result = "none"
    /\ pool.left = 0
    /\ pool.success
    /\ pool' = [pool EXCEPT !.result = "returned"]
    /\ UNCHANGED <<freezeVars, buildVars, widthVars>>
    /\ UNCHANGED <<config, argv, args, data, use_hinted, builder, fixed>>

\* Every chunk is reported and one failed: map raises the first exception,
\* which leaves the with block and main.
MapRaise ==
    /\ pool.batch > 0
    /\ pool.result = "none"
    /\ pool.left = 0
    /\ ~pool.success
    /\ pool' = [pool EXCEPT !.result = "raised"]
    /\ UNCHANGED <<freezeVars, buildVars, widthVars>>
    /\ UNCHANGED <<config, argv, args, data, use_hinted, builder, fixed>>

\* main from the first batch on.
InitPool ==
    /\ font = InitFont(<<>>, <<>>, <<GlyphNames, GlyphNames>>)
    /\ config = <<>>
    /\ pc = "idle"
    /\ i = 0
    /\ calls = 0
    /\ start = font
    /\ pre = font
    /\ last = [step |-> "none", at |-> 0]
    /\ once = font
    /\ style = Regular
    /\ with_nerd_font = TRUE
    /\ narrow = FALSE
    /\ name_table = <<>>
    /\ usWeightClass = 400
    /\ built = NotBuilt
    /\ NotNarrowed
    /\ NotDriven

NextPool ==
    \/ PoolMap
    \/ WorkerTake
    \/ TaskDone
    \/ TaskRaise
    \/ MapReturn
    \/ MapRaise

SpecPool == InitPool /\ [][NextPool]_vars

\* C12: in each batch main maps over a Pool, when the task of one style
\* fails with an exception, the task of every other style of the batch
\* still runs to completion, for every pool size and number of files.
C12_SiblingsRunToCompletion ==
    pool.result # "none" =>
        \A t \in 1..pool.files :
            t \notin pool.raising => pool.task[t] = "done"

(***************************************************************************)
(* build.py: fix_cv98, and the engine operations in any order              *)
(***************************************************************************)
cv98 == <<"c", "v", "9", "8">>

\* The mapping of lines 332-335.
cv98_mapping ==
    << <<"emdash", "emdash.cv98">>, <<"ellipsis", "ellipsis.cv98">> >>

\* The position of the record at which the loop of lines 326-336 stops: the
\* first one tagged "cv98", 0 when the loop runs to its end.
FirstCv98(feature_record) ==
    IF \E k \in DOMAIN feature_record : feature_record[k].FeatureTag = cv98
    THEN Min({k \in DOMAIN feature_record : feature_record[k].FeatureTag = cv98})
    ELSE 0

\* Lines 329-335: the mapping of the first subtable of the feature's first
\* lookup is replaced.
ReplaceMapping(f, k) ==
    [f EXCEPT !.Lookup[f.FeatureRecord[k].LookupListIndex[1] + 1] = cv98_mapping]

\* fix_cv98 returns: with the mapping replaced, or without a "cv98" record.
FixCv98 ==
    /\ pc = "idle"
    /\ LET k == FirstCv98(font.FeatureRecord)
       IN /\ k # 0 => font.FeatureRecord[k].LookupListIndex # <<>>
          /\ font' = IF k = 0 THEN font ELSE ReplaceMapping(font, k)
    /\ fixed' = TRUE
    /\ UNCHANGED <<config, pc, i, calls, start, pre, last, once>>
    /\ UNCHANGED <<argv, args, data, use_hinted, pool, builder>>
    /\ UNCHANGED <<buildVars, widthVars>>

\* Line 330 on an empty lookup-index list: LookupListIndex[0] raises
\* IndexError, which ends the caller.
FixCv98Raise ==
    /\ pc = "idle"
    /\ LET k == FirstCv98(font.FeatureRecord)
       IN k # 0 /\ font.FeatureRecord[k].LookupListIndex = <<>>
    /\ pc' = "raised"
    /\ UNCHANGED <<font, config, i, calls, start, pre, last, once>>
    /\ UNCHANGED <<buildVars, widthVars, driverVars>>

\* build_cn, line 594: change_char_width(font, match_width=1200,
\* target_width=1000).
NarrowCall ==
    /\ ChangeWidthCall
    /\ match_width' = 1200
    /\ target_width' = 1000

\* Feature lists of the merged font: lookup 0 is the single substitution of
\* "cv98", lookups 1 and 2 the contextual lookups of "calt" and "ss03".
MergedRecords ==
    { <<>>,
      << [FeatureTag |-> cv98, LookupListIndex |-> <<0>>] >>,
      << [FeatureTag |-> calt, LookupListIndex |-> <<1>>],
         [FeatureTag |-> cv98, LookupListIndex |-> <<0>>],
         [FeatureTag |-> ss03, LookupListIndex |-> <<2>>] >> }

\* The mapping of lookup 0 as the merge left it: over glyph names of the
\* font only.
MergedMappings(names) ==
    {<<>>} \cup {<< <<a, b>> >> : a \in {"emdash.cv98"} \cap names, b \in {"emdash"} \cap names}

\* Policies over the tags "cv98" and "ss03".
MergedPolicies ==
    {c \in SeqUpTo({cv98, ss03} \X Statuses, 2) :
        Injective([k \in DOMAIN c |-> c[k][1]])}

\* Glyphs of the merged font: the full-width ones, and a half-width one.
MergedShapes ==
    {shape \in GlyphShapes : shape.width = 1200 \/ shape.numberOfContours # 0}

\* The engine: fix_cv98, freeze_feature and change_char_width called in any
\* order on a merged font.
InitEngine ==
    /\ \E shapes \in SeqUpTo(MergedShapes, MaxGlyphs) \ {<<>>},
          records \in MergedRecords :
          \E m0 \in MergedMappings({OrderNames[k] : k \in DOMAIN shapes}) :
              font = ParsedFont(shapes, records, <<m0, <<>>, <<>>>>)
    /\ config \in MergedPolicies
    /\ pc = "idle"
    /\ i = 0
    /\ calls = 0
    /\ start = font
    /\ pre = font
    /\ last = [step |-> "none", at |-> 0]
    /\ once = font
    /\ style = Regular
    /\ with_nerd_font = TRUE
    /\ narrow = TRUE
    /\ name_table = <<>>
    /\ usWeightClass = 400
    /\ built = NotBuilt
    /\ NotNarrowed
    /\ NotDriven

NextEngine ==
    \/ FixCv98
    \/ FixCv98Raise
    \/ FreezeCall
    \/ FreezeContinue
    \/ FreezeDisable
    \/ FreezeMove
    \/ FreezeReplace
    \/ FreezeReplaceReturn
    \/ FreezeEnd
    \/ NarrowCall
    \/ ChangeWidthSkip
    \/ ChangeWidthBlank
    \/ ChangeWidthShift
    \/ ChangeWidthReturn

SpecEngine == InitEngine /\ [][NextEngine]_vars

\* The glyph names the mappings of the lookups hold.
MappedNames(f) ==
    UNION { UNION { {f.Lookup[l][p][1], f.Lookup[l][p][2]} : p \in DOMAIN f.Lookup[l] } :
            l \in DOMAIN f.Lookup }

\* Every glyph name of a lookup mapping, and every glyph name with a
\* metrics entry, is in the outline store.
NoDanglingReference(f) ==
    /\ MappedNames(f) \subseteq DOMAIN f.glyphs
    /\ DOMAIN f.metrics \subseteq DOMAIN f.glyphs

\* C13: on a font without a dangling glyph reference, no sequence of
\* fix_cv98, freeze_feature and change_char_width introduces one.
C13_NoDanglingReference == NoDanglingReference(font)

(***************************************************************************)
(* build.py: main for one style file, from the command line to the CN font *)
(***************************************************************************)
Flags == {"--cn-narrow", "--hinted", "--no-hinted"}

\* An argument with action="store_true": True when the flag is given, the
\* default False when it is not.
store_true(flag, given) == IF flag \in given THEN "True" ELSE "False"

\* An argument with action="store_false": False when the flag is given, the
\* default True when it is not.
store_false(flag, given) == IF flag \in given THEN "False" ELSE "True"

\* parse_args: the Namespace for a command line.
parse_args(given) ==
    [cn_narrow |-> store_true("--cn-narrow", given),
     hinted |-> store_true("--hinted", given),
     no_hinted |-> store_false("--no-hinted", given)]

\* The configurations json.load can return: use_hinted and cn["narrow"]
\* either way, no Nerd Font in the CN build.
Configurations ==
    {[use_hinted |-> h,
      nerd_font |-> [enable |-> TRUE],
      cn |-> [narrow |-> nw, with_nerd_font |-> FALSE]] : h, nw \in BOOLEAN}

\* main, line 623: parse_args().
ParseArgs ==
    /\ pc = "main"
    /\ args' = parse_args(argv)
    /\ pc' = "parsed"
    /\ UNCHANGED <<font, config, i, calls, start, pre, last, once>>
    /\ UNCHANGED <<argv, data, use_hinted, pool, builder, fixed>>
    /\ UNCHANGED <<buildVars, widthVars>>

\* main, lines 623-627: load_external(args), with its tests of lines
\* 176-183, and load_cn_dir_and_suffix.
LoadExternal ==
    /\ pc = "parsed"
    /\ LET from_data == data.use_hinted
           after_hinted == IF args.hinted # "None" THEN TRUE ELSE from_data
       IN use_hinted' = IF args.no_hinted # "None" THEN FALSE ELSE after_hinted
    /\ narrow' = IF args.cn_narrow # "None" THEN TRUE ELSE data.cn.narrow
    /\ with_nerd_font' = (data.cn.with_nerd_font /\ data.nerd_font.enable)
    /\ pc' = "closed"
    /\ UNCHANGED <<font, config, i, calls, start, pre, last, once>>
    /\ UNCHANGED <<style, name_table, usWeightClass, built>>
    /\ UNCHANGED <<argv, args, data, pool, builder, fixed>>
    /\ UNCHANGED widthVars

\* build_mono, lines 389-390: the style file is parsed.
BuildMonoOpen ==
    /\ pc = "closed"
    /\ builder = "none"
    /\ builder' = "build_mono"
    /\ pc' = "idle"
    /\ UNCHANGED <<font, config, i, calls, start, pre, last, once>>
    /\ UNCHANGED <<argv, args, data, use_hinted, pool, fixed>>
    /\ UNCHANGED <<buildVars, widthVars>>

\* build_mono, lines 392-429.
MonoNames ==
    /\ builder = "build_mono"
    /\ BuildMonoNames

\* build_mono, line 431, and build_cn, line 591: freeze(font, feature_freeze).
BuilderFreeze ==
    /\ \/ builder = "build_mono" /\ built.by = "mono" /\ calls = 0
       \/ builder = "build_cn" /\ built.by = "cn" /\ fixed /\ calls = 1
    /\ FreezeCall

\* build_mono, lines 433-434: the font is written over the style file.
BuildMonoSave ==
    /\ builder = "build_mono"
    /\ pc = "idle"
    /\ calls = 1
    /\ pc' = "closed"
    /\ UNCHANGED <<font, config, i, calls, start, pre, last, once>>
    /\ UNCHANGED <<buildVars, widthVars, driverVars>>

\* The static CN font of cn_static_path: full-width glyphs (an em dash of
\* its own, the ideographic space without contours, an ideograph), no GSUB.
CNStaticOrder == <<"emdash", "uni3000", "uni4E00">>

CNStaticShape(g) ==
    IF g = "uni3000"
    THEN [width |-> 1200, lsb |-> 0, numberOfContours |-> 0, coordinates |-> <<>>]
    ELSE [width |-> 1200, lsb |-> 100, numberOfContours |-> 1,
          coordinates |-> << <<100, 0>>, <<1100, 800>> >>]

CNStatic ==
    [ FeatureRecord |-> <<>>,
      Lookup |-> <<>>,
      glyphOrder |-> CNStaticOrder,
      glyphs |-> [g \in {CNStaticOrder[k] : k \in DOMAIN CNStaticOrder} |->
                     CHOOSE k \in DOMAIN CNStaticOrder : CNStaticOrder[k] = g],
      heap |-> [o \in DOMAIN CNStaticOrder |-> GlyphObject(CNStaticShape(CNStaticOrder[o]))],
      metrics |-> [g \in {CNStaticOrder[k] : k \in DOMAIN CNStaticOrder} |->
                      <<CNStaticShape(g).width, CNStaticShape(g).lsb>>],
      advanceWidthMax |-> 1200 ]

\* Merger().merge([base, addon]) on two files: the glyphs of the base, then
\* those of the addon under names the base does not hold; every name with a
\* Glyph object of its own; the GSUB of the base.
Merge(base, addon) ==
    LET order == base.glyphOrder
                    \o SelectSeq(addon.glyphOrder, LAMBDA g : g \notin DOMAIN base.glyphs)
        names == {order[k] : k \in DOMAIN order}
        from(g) == IF g \in DOMAIN base.glyphs THEN base ELSE addon
    IN [ FeatureRecord |-> base.FeatureRecord,
         Lookup |-> base.Lookup,
         glyphOrder |-> order,
         glyphs |-> [g \in names |-> CHOOSE k \in DOMAIN order : order[k] = g],
         heap |-> [o \in DOMAIN order |-> Outline(from(order[o]), order[o])],
         metrics |-> [g \in names |-> from(g).metrics[g]],
         advanceWidthMax |-> Max({from(g).metrics[g][1] : g \in names}) ]

\* build_cn, lines 544-552: the file build_mono wrote is merged with the
\* static CN font.
BuildCNOpen ==
    /\ pc = "closed"
    /\ builder = "build_mono"
    /\ builder' = "build_cn"
    /\ font' = Merge(font, CNStatic)
    /\ built' = NotBuilt
    /\ pc' = "idle"
    /\ UNCHANGED <<config, i, calls, start, pre, last, once>>
    /\ UNCHANGED <<style, with_nerd_font, narrow, name_table, usWeightClass>>
    /\ UNCHANGED <<argv, args, data, use_hinted, pool, fixed>>
    /\ UNCHANGED widthVars

\* build_cn, lines 554-584.
CNNames ==
    /\ builder = "build_cn"
    /\ BuildCNNames

\* build_cn, line 589.
CNFixCv98 ==
    /\ builder = "build_cn"
    /\ built.by = "cn"
    /\ ~fixed
    /\ FixCv98

\* build_cn, line 589, ended by the IndexError of fix_cv98.
CNFixCv98Raise ==
    /\ builder = "build_cn"
    /\ built.by = "cn"
    /\ ~fixed
    /\ FixCv98Raise

\* build_cn, lines 593-594.
CNNarrow ==
    /\ builder = "build_cn"
    /\ fixed
    /\ calls = 2
    /\ narrow
    /\ NarrowCall

\* build_cn, lines 616-617: the CN font is written.
BuildCNSave ==
    /\ builder = "build_cn"
    /\ pc = "idle"
    /\ fixed
    /\ calls = 2
    /\ narrow => widths = 1
    /\ builder' = "done"
    /\ pc' = "closed"
    /\ UNCHANGED <<font, config, i, calls, start, pre, last, once>>
    /\ UNCHANGED <<argv, args, data, use_hinted, pool, fixed>>
    /\ UNCHANGED <<buildVars, widthVars>>

\* The glyphs of a style file: half-width, or full-width as the variants
\* of "cv98" are, each with a contour.
StyleShapes ==
    {shape \in GlyphShapes : shape.numberOfContours # 0}

\* main on one style file whose GSUB holds "calt", "cv98" and "ss03".
InitBuild ==
    /\ \E shapes \in SeqUpTo(StyleShapes, MaxGlyphs) :
          /\ Len(shapes) >= 2
          /\ font = ParsedFont(shapes,
                               << [FeatureTag |-> calt, LookupListIndex |-> <<1>>],
                                  [FeatureTag |-> cv98, LookupListIndex |-> <<0>>],
                                  [FeatureTag |-> ss03, LookupListIndex |-> <<2>>] >>,
                               << << <<"emdash", "emdash.cv98">> >>, <<>>, <<>> >>)
    /\ config \in MergedPolicies
    /\ pc = "main"
    /\ i = 0
    /\ calls = 0
    /\ start = font
    /\ pre = font
    /\ last = [step |-> "none", at |-> 0]
    /\ once = font
    /\ style = Regular
    /\ with_nerd_font = TRUE
    /\ narrow = FALSE
    /\ name_table = <<>>
    /\ usWeightClass = 400
    /\ built = NotBuilt
    /\ NotNarrowed
    /\ argv \in SUBSET Flags
    /\ args = <<>>
    /\ data \in Configurations
    /\ use_hinted = TRUE
    /\ pool = NoPool
    /\ builder = "none"
    /\ fixed = FALSE

NextBuild ==
    \/ ParseArgs
    \/ LoadExternal
    \/ BuildMonoOpen
    \/ MonoNames
    \/ BuilderFreeze
    \/ FreezeContinue
    \/ FreezeDisable
    \/ FreezeMove
    \/ FreezeReplace
    \/ FreezeReplaceReturn
    \/ FreezeEnd
    \/ BuildMonoSave
    \/ BuildCNOpen
    \/ CNNames
    \/ CNFixCv98
    \/ CNFixCv98Raise
    \/ CNNarrow
    \/ ChangeWidthSkip
    \/ ChangeWidthBlank
    \/ ChangeWidthShift
    \/ ChangeWidthReturn
    \/ BuildCNSave

SpecBuild == InitBuild /\ [][NextBuild]_vars

(***************************************************************************)
(* Properties of the build of one style.                                   *)
(***************************************************************************)
\* load_external has returned.
Loaded == pc \notin {"main", "parsed"}

\* C15: after load_external, cn["narrow"] is true only if --cn-narrow was
\* given or the configuration sets it; use_hinted is true if --hinted was
\* given, false if --no-hinted was given, and the configuration's value
\* when neither was.  With --cn-narrow not given and narrow false in the
\* configuration, build_cn does not call change_char_width and the
\* identifier it writes holds no "Narrow;".
C15_OptionsFollowFlags ==
    Loaded =>
        /\ narrow => ("--cn-narrow" \in argv \/ data.cn.narrow)
        /\ ("--hinted" \in argv /\ "--no-hinted" \notin argv) => use_hinted
        /\ ("--no-hinted" \in argv /\ "--hinted" \notin argv) => ~use_hinted
        /\ ("--hinted" \notin argv /\ "--no-hinted" \notin argv) =>
              use_hinted = data.use_hinted
        /\ ("--cn-narrow" \notin argv /\ ~data.cn.narrow) =>
              /\ widths = 0
              /\ pc # "width"
              /\ built.by = "cn" => ~contains(name_table[3], NarrowPrefix)

\* C16: after the fix_cv98, freeze, change_char_width of build_cn, the
\* outline seen under every glyph name that had contours and advance width
\* match_width when change_char_width began -- names that freeze_feature
\* made share one outline included -- is shifted horizontally by delta
\* once, and the shift equals the increase of the name's left side bearing.
C16_ShiftedOnce ==
    (builder = "build_cn" /\ WidthReturned) =>
        \A name \in DOMAIN entry.glyphs :
            (/\ entry.metrics[name][1] = match_width
             /\ Outline(entry, name).numberOfContours # 0) =>
                LET old == Outline(entry, name).coordinates
                    new == Outline(font, name).coordinates
                    delta == Delta(target_width - match_width)
                IN /\ DOMAIN new = DOMAIN old
                   /\ \A k \in DOMAIN old :
                         /\ new[k] = <<old[k][1] + delta, old[k][2]>>
                         /\ new[k][1] - old[k][1] =
                               font.metrics[name][2] - entry.metrics[name][2]

\* The number of times x occurs in the sequence s.
Count(x, s) == Cardinality({k \in DOMAIN s : s[k] = x})

\* C17: over the build of one style (build_mono freezes and writes the
\* TTF, build_cn merges that file and freezes), every lookup index of an
\* enabled relocated feature occurs in a "calt" lookup list of the CN font
\* as often as after the one freeze of build_mono.
C17_PolicyAppliedOnce ==
    (builder = "build_cn" /\ pc = "idle" /\ calls = 2) =>
        \A j \in DOMAIN config :
            (/\ config[j][2] = "enable"
             /\ config[j][1] \in {ss03, ss05, ss07}
             /\ GetTarget(once.FeatureRecord, config[j][1]) # 0) =>
                LET target == GetTarget(once.FeatureRecord, config[j][1])
                    moved == once.FeatureRecord[target].LookupListIndex
                IN \A k \in calt_features(once.FeatureRecord), p \in DOMAIN moved :
                      Count(moved[p], font.FeatureRecord[k].LookupListIndex) =
                         Count(moved[p], once.FeatureRecord[k].LookupListIndex)

====
